---- MODULE Spec2Model ----
(***************************************************************************)
(* Model of src/badge_app.py: the label layout engine                      *)
(* (get_font_path, create_label_image) as a step machine, and the two      *)
(* print handlers (print_label, print_label_pdf) over the users and        *)
(* print_logs tables.                                                      *)
(***************************************************************************)
EXTENDS Integers, Sequences, FiniteSets, TLC

VARIABLES
    is_windows,     \* IS_WINDOWS, fixed at start-up
    full_name,      \* the text: [glyphs, lines] of f"{first_name} {last_name}"
    start_size,     \* the size the search starts from (120 in the code)
    font_size,      \* create_label_image's font_size
    font,           \* create_label_image's font (None before the first load)
    pc,             \* position in create_label_image
    accepted,       \* the loop ended by the break of line 177
    attempts,       \* fitting measurements made by the loop (lines 171-176)
    log,            \* the loop's measurements, in order: <<size, fitted>>
    default_tried,  \* a fitting measurement was made with the default font
    last_avail,     \* the font files that loaded at the latest get_font_path
    text_width,     \* lines 188-189
    text_height,    \* line 190
    x,              \* line 193
    image,          \* the returned image: None until line 211
    fixed_font,     \* the host's fonts do not change between two loads
    host_fonts,     \* the font files that load when fixed_font
    run,            \* which of two searches is running (start-size comparison)
    first_start,    \* the first search's start size
    next_start,     \* the second search's start size
    first_result,   \* the first search's final font_size
    users,          \* table users: the ids of its rows
    print_logs,     \* table print_logs: the user_id of each row, in order
    last,           \* what the latest request did and answered
    label_rows,     \* rows /print-label requests added to print_logs
    label_success,  \* /print-label requests answered with success
    last_models,    \* what check_supported_models gave the latest request
    nreq            \* requests handled

label_vars == <<is_windows, full_name, start_size, font_size, font, pc, accepted,
                attempts, log, default_tried, last_avail, text_width,
                text_height, x, image, fixed_font, host_fonts>>
mono_vars == <<run, first_start, next_start, first_result>>
server_vars == <<users, print_logs, last, label_rows, label_success, last_models,
                 nreq>>
vars == <<label_vars, mono_vars, server_vars>>

----------------------------------------------------------------------------
(* Bounds of the model *)

\* texts have 0, GlyphUnit, 2*GlyphUnit, ... glyphs on their longest line
GlyphUnit == 9
MaxGlyphUnits == 10
\* a name may hold line breaks
MaxLines == 2
\* compared start sizes lie in (StartFontSize - StartSpread)..StartFontSize
StartSpread == 5
\* requests handled in one run of the server
MaxRequests == 2
\* ids a client sends lie in 0..MaxClientId
MaxClientId == 2

(* Program constants *)
label_width == 991
label_height == 306
StartFontSize == 120
MinFontSize == 20
SizeStep == 5
NumWindowsFonts == 6
NumUnixFonts == 5

\* Python's None, as a value comparable with font and image objects
None == [kind |-> "None"]

\* int(label_width * 0.95), int(label_height * 0.9)
max_text_width == (label_width * 95) \div 100
max_text_height == (label_height * 9) \div 10

Texts == [glyphs : {k * GlyphUnit : k \in 0..MaxGlyphUnits}, lines : 1..MaxLines]

----------------------------------------------------------------------------
(* Fonts *)

\* font_paths, by position in the list
FontPaths(win) == 1..(IF win THEN NumWindowsFonts ELSE NumUnixFonts)

\* ImageFont.load_default(): a fixed-size font, whatever size was asked for
DefaultFont == [kind |-> "default", path |-> 0, size |-> 10]

TrueType(p, size) == [kind |-> "truetype", path |-> p, size |-> size]

Min(S) == CHOOSE m \in S : \A o \in S : m <= o

\* get_font_path: the first path that exists and loads, else the default font.
\* avail is the set of paths that exist and load at this call.
get_font_path(avail, size) ==
    IF avail # {} THEN TrueType(Min(avail), size) ELSE DefaultFont

\* `if font:` - a font object is truthy, None is not
Truthy(f) == f # None

\* draw.textbbox((0, 0), full_name, font=font): (width, height) of the ink
GlyphAdvance(f) == (f.size * (10 + f.path)) \div 20
LineHeight(f) == (f.size * 23) \div 20
textbbox(f, t) ==
    IF t.glyphs = 0 THEN [width |-> 0, height |-> 0]
    ELSE [width |-> t.glyphs * GlyphAdvance(f), height |-> t.lines * LineHeight(f)]

----------------------------------------------------------------------------
(* create_label_image, line by line *)

LoopGuardNoMinimum(fs) == fs > 0

\* `while font_size > 20`
LoopGuard(fs) == fs > MinFontSize

FitsWidthOnly(b) == b.width <= max_text_width

\* `text_width <= max_text_width and text_height <= max_text_height`
Fits(b) == b.width <= max_text_width /\ b.height <= max_text_height

ShrinkTwoSteps(fs) == fs - 2 * SizeStep

\* `font_size -= 5`
Shrink(fs) == fs - SizeStep

CenterXNoHalving(w) == label_width - w

\* `x = (label_width - text_width) // 2`
CenterX(w) == (label_width - w) \div 2

\* `Image.new("L", (label_width, label_height), "white")`, as returned
LabelImage == [kind |-> "L", width |-> label_width, height |-> label_height]

\* The loads the host allows at one call of get_font_path
Loadable ==
    {a \in SUBSET FontPaths(is_windows) : fixed_font => a = host_fonts}

\* line 164-165, and everything the function has not computed yet
Entry(start) ==
    /\ start_size = start
    /\ font_size = start
    /\ font = None
    /\ pc = "loop"
    /\ accepted = FALSE
    /\ attempts = 0
    /\ log = <<>>
    /\ default_tried = FALSE
    /\ last_avail = {}
    /\ text_width = 0
    /\ text_height = 0
    /\ x = 0
    /\ image = None

\* lines 167-168: the loop test passes and the font is resolved at this size
Resolve ==
    /\ pc = "loop"
    /\ LoopGuard(font_size)
    /\ \E avail \in Loadable :
          /\ font' = get_font_path(avail, font_size)
          /\ last_avail' = avail
    /\ pc' = "fit"
    /\ UNCHANGED <<is_windows, full_name, start_size, font_size, accepted, attempts,
                   log, default_tried, text_width, text_height, x, image,
                   fixed_font, host_fonts, mono_vars, server_vars>>

\* line 167: the loop test fails
LoopExit ==
    /\ pc = "loop"
    /\ ~LoopGuard(font_size)
    /\ pc' = "clamp"
    /\ UNCHANGED <<is_windows, full_name, start_size, font_size, font, accepted,
                   attempts, log, default_tried, last_avail, text_width,
                   text_height, x, image, fixed_font, host_fonts, mono_vars,
                   server_vars>>

MeasureStepShrinkFirst ==
    /\ pc = "fit"
    /\ LET b == textbbox(font, full_name) IN
          /\ attempts' = attempts + 1
          /\ log' = Append(log, <<font_size, Fits(b)>>)
          /\ default_tried' = (default_tried \/ font.kind = "default")
          /\ font_size' = Shrink(font_size)
          /\ IF Fits(b)
             THEN accepted' = TRUE /\ pc' = "clamp"
             ELSE accepted' = accepted /\ pc' = "loop"
    /\ UNCHANGED <<is_windows, full_name, start_size, font, last_avail, text_width,
                   text_height, x, image, fixed_font, host_fonts, mono_vars,
                   server_vars>>

\* lines 170-180: measure, then break on a fit, shrink otherwise;
\* break without measuring when there is no font object
MeasureStep ==
    /\ pc = "fit"
    /\ IF Truthy(font)
       THEN LET b == textbbox(font, full_name) IN
               /\ attempts' = attempts + 1
               /\ log' = Append(log, <<font_size, Fits(b)>>)
               /\ default_tried' = (default_tried \/ font.kind = "default")
               /\ IF Fits(b)
                  THEN /\ accepted' = TRUE
                       /\ pc' = "clamp"
                       /\ font_size' = font_size
                  ELSE /\ accepted' = accepted
                       /\ font_size' = Shrink(font_size)
                       /\ pc' = "loop"
       ELSE /\ pc' = "clamp"
            /\ UNCHANGED <<attempts, log, default_tried, accepted, font_size>>
    /\ UNCHANGED <<is_windows, full_name, start_size, font, last_avail, text_width,
                   text_height, x, image, fixed_font, host_fonts, mono_vars,
                   server_vars>>

ClampKeepsFont ==
    /\ pc = "clamp"
    /\ font_size' = (IF font_size <= MinFontSize THEN MinFontSize ELSE font_size)
    /\ pc' = "layout"
    /\ UNCHANGED <<is_windows, full_name, start_size, font, accepted, attempts, log,
                   default_tried, last_avail, text_width, text_height, x, image,
                   fixed_font, host_fonts, mono_vars, server_vars>>

\* lines 183-185: at or under the minimum, take the minimum and load again
Clamp ==
    /\ pc = "clamp"
    /\ IF font_size <= MinFontSize
       THEN /\ font_size' = MinFontSize
            /\ \E avail \in Loadable :
                  /\ font' = get_font_path(avail, MinFontSize)
                  /\ last_avail' = avail
       ELSE UNCHANGED <<font_size, font, last_avail>>
    /\ pc' = "layout"
    /\ UNCHANGED <<is_windows, full_name, start_size, accepted, attempts, log,
                   default_tried, text_width, text_height, x, image, fixed_font,
                   host_fonts, mono_vars, server_vars>>

\* lines 188-211: measure in the final font, centre horizontally, draw, return
\* the image (the vertical offset y of lines 195-205 is not kept)
Layout ==
    /\ pc = "layout"
    /\ LET b == textbbox(font, full_name) IN
          /\ text_width' = b.width
          /\ text_height' = b.height
          /\ x' = CenterX(b.width)
    /\ image' = LabelImage
    /\ pc' = "done"
    /\ UNCHANGED <<is_windows, full_name, start_size, font_size, font, accepted,
                   attempts, log, default_tried, last_avail, fixed_font,
                   host_fonts, mono_vars, server_vars>>

----------------------------------------------------------------------------
(* The print handlers over the two tables *)

\* A key the JSON object does not hold
Absent == "<absent>"

AbsentId == [kind |-> "absent", val |-> 0]
IntId(v) == [kind |-> "int", val |-> v]
\* a list, an object, or an integer outside 64 bits: sqlite3 cannot bind it
UnbindableId == [kind |-> "unbindable", val |-> 0]

IdVals == {AbsentId, UnbindableId} \cup {IntId(v) : v \in 0..MaxClientId}

\* The bodies of a POST: a JSON object with its keys, or anything else
Requests ==
    [body : {"object"}, nom : {Absent, "", "Doe"}, last_name : {Absent, "", "Doe"},
     prenom : {Absent, "", "Jane"}, first_name : {Absent, "", "Jane"}, id : IdVals]
    \cup {[body |-> "other", nom |-> Absent, last_name |-> Absent,
           prenom |-> Absent, first_name |-> Absent, id |-> AbsentId]}

\* dict.get(key, default)
Get(d, key, default) == IF d[key] = Absent THEN default ELSE d[key]

NamesRejectedWhenBothMissing(nom, prenom) == nom = "" /\ prenom = ""

\* `if not nom or not prenom`
NamesRejected(nom, prenom) == nom = "" \/ prenom = ""

\* `if not user_id`
NoUserId(id) == id.kind = "absent" \/ (id.kind = "int" /\ id.val = 0)

\* cursor.lastrowid of an INSERT into users (AUTOINCREMENT)
NextRowId(rows) == IF rows = {} THEN 1 ELSE (CHOOSE m \in rows : \A o \in rows : o <= m) + 1

\* whether cursor.execute can bind the value as a parameter
Bindable(id) == id.kind = "int"

\* what `brother_ql info models` gave: the model listed, not listed, or the
\* error string of the except branch
ModelOutputs == {"lists_model", "omits_model", "error_string"}

\* `model not in supported_models`
ModelRecognized(out) == out = "lists_model"

\* convert and send: both pass, or one of them raises
Transports == {"ok", "convert_raises", "send_raises"}

PrintImageBeforeModelCheck(models_out, transport) ==
    IF ~ModelRecognized(models_out)
    THEN [status |-> "error", image_created |-> TRUE, sent |-> FALSE]
    ELSE IF transport = "ok"
    THEN [status |-> "success", image_created |-> TRUE, sent |-> TRUE]
    ELSE [status |-> "error", image_created |-> TRUE,
          sent |-> (transport = "send_raises")]

\* print_to_brother_ql: its status, and what it did on the way
print_to_brother_ql(models_out, transport) ==
    IF ~ModelRecognized(models_out)
    THEN [status |-> "error", image_created |-> FALSE, sent |-> FALSE]
    ELSE LET img == LabelImage IN
         IF img = None
         THEN [status |-> "error", image_created |-> FALSE, sent |-> FALSE]
         ELSE IF transport = "ok"
         THEN [status |-> "success", image_created |-> TRUE, sent |-> TRUE]
         ELSE [status |-> "error", image_created |-> TRUE,
               sent |-> (transport = "send_raises")]

\* The names a request gives under neither key, or empty
NoLastName(r) == r.nom \in {Absent, ""} /\ r.last_name \in {Absent, ""}
NoFirstName(r) == r.prenom \in {Absent, ""} /\ r.first_name \in {Absent, ""}

NotCalled == [status |-> "not_called", image_created |-> FALSE, sent |-> FALSE]

\* What a handler leaves: the two tables, the status it answers, what the
\* printer step returned and whether create_badge_pdf was called
Outcome(u, logs, status, printer, pdf) ==
    [users |-> u, print_logs |-> logs, status |-> status, printer |-> printer,
     pdf_called |-> pdf]

\* print_label, lines 533-579
print_label(r, models_out, transport, u, logs) ==
    IF r.body # "object"
    THEN \* data.get raises: the except branch answers 500
         Outcome(u, logs, 500, NotCalled, FALSE)
    ELSE
    LET nom == Get(r, "nom", Get(r, "last_name", ""))
        prenom == Get(r, "prenom", Get(r, "first_name", ""))
    IN
    IF NamesRejected(nom, prenom)
    THEN Outcome(u, logs, 400, NotCalled, FALSE)
    ELSE
    LET create == NoUserId(r.id)
        user_id == IF create THEN IntId(NextRowId(u)) ELSE r.id
        u1 == IF create THEN u \cup {NextRowId(u)} ELSE u
        result == print_to_brother_ql(models_out, transport)
    IN
    IF result.status = "success"
    THEN IF Bindable(user_id)
         THEN Outcome(u1, Append(logs, user_id.val), 200, result, FALSE)
         ELSE \* the INSERT raises: the except branch answers 500
              Outcome(u1, logs, 500, result, FALSE)
    ELSE Outcome(u1, logs, 500, result, FALSE)

\* print_label_pdf, lines 584-636
print_label_pdf(r, pdf_ok, u, logs) ==
    IF r.body # "object"
    THEN Outcome(u, logs, 500, NotCalled, FALSE)
    ELSE
    LET nom == Get(r, "nom", Get(r, "last_name", ""))
        prenom == Get(r, "prenom", Get(r, "first_name", ""))
    IN
    IF NamesRejected(nom, prenom)
    THEN Outcome(u, logs, 400, NotCalled, FALSE)
    ELSE
    LET create == NoUserId(r.id)
        user_id == IF create THEN IntId(NextRowId(u)) ELSE r.id
        u1 == IF create THEN u \cup {NextRowId(u)} ELSE u
    IN
    IF ~pdf_ok
    THEN \* create_badge_pdf raises: the except branch answers 500
         Outcome(u1, logs, 500, NotCalled, TRUE)
    ELSE IF Bindable(user_id)
    THEN Outcome(u1, Append(logs, user_id.val), 200, NotCalled, TRUE)
    ELSE \* the INSERT raises: the except branch answers 500
         Outcome(u1, logs, 500, NotCalled, TRUE)

\* The record of a handled request: what it asked, what was answered, and how
\* many rows each table gained
Answer(route, r, out) ==
    [route |-> route, body |-> r.body,
     name_missing |-> (NoLastName(r) \/ NoFirstName(r)),
     id |-> r.id, status |-> out.status, printer |-> out.printer.status,
     image_created |-> out.printer.image_created, sent |-> out.printer.sent,
     pdf_called |-> out.pdf_called,
     users_added |-> Cardinality(out.users) - Cardinality(users),
     logs_added |-> Len(out.print_logs) - Len(print_logs)]

\* POST /print-label
PrintLabel ==
    /\ nreq < MaxRequests
    /\ nreq' = nreq + 1
    /\ \E r \in Requests, models_out \in ModelOutputs, transport \in Transports :
          LET out == print_label(r, models_out, transport, users, print_logs) IN
             /\ users' = out.users
             /\ print_logs' = out.print_logs
             /\ last' = Answer("/print-label", r, out)
             /\ label_rows' = label_rows + Len(out.print_logs) - Len(print_logs)
             /\ label_success' =
                   label_success + (IF out.status = 200 THEN 1 ELSE 0)
             /\ last_models' = (IF out.printer.status = "not_called"
                                THEN "not_called" ELSE models_out)
    /\ UNCHANGED <<label_vars, mono_vars>>

\* POST /print-label-pdf
PrintLabelPdf ==
    /\ nreq < MaxRequests
    /\ nreq' = nreq + 1
    /\ \E r \in Requests, pdf_ok \in BOOLEAN :
          LET out == print_label_pdf(r, pdf_ok, users, print_logs) IN
             /\ users' = out.users
             /\ print_logs' = out.print_logs
             /\ last' = Answer("/print-label-pdf", r, out)
    /\ last_models' = "not_called"
    /\ UNCHANGED <<label_rows, label_success, label_vars, mono_vars>>

----------------------------------------------------------------------------
(* Specifications *)

\* The tables as init_db leaves them, before any request
ServerStart ==
    /\ users = {}
    /\ print_logs = <<>>
    /\ last = [route |-> "none", body |-> "other", name_missing |-> FALSE,
               id |-> AbsentId, status |-> 0, printer |-> "not_called",
               image_created |-> FALSE, sent |-> FALSE, pdf_called |-> FALSE,
               users_added |-> 0, logs_added |-> 0]
    /\ label_rows = 0
    /\ label_success = 0
    /\ last_models = "not_called"
    /\ nreq = 0

Init ==
    /\ is_windows \in BOOLEAN
    /\ full_name \in Texts
    /\ Entry(StartFontSize)
    /\ fixed_font = FALSE
    /\ host_fonts = {}
    /\ run = 1
    /\ first_start = StartFontSize
    /\ next_start = StartFontSize
    /\ first_result = 0
    /\ ServerStart

Next == Resolve \/ LoopExit \/ MeasureStep \/ Clamp \/ Layout

Spec == Init /\ [][Next]_vars

\* one call runs to its end on the caller's thread
FairSpec == Spec /\ WF_vars(Next)

----------------------------------------------------------------------------
(* The search run twice on one host and one text, from two start sizes *)

StartSizes == (StartFontSize - StartSpread)..StartFontSize

\* One font file at most loads, and the same at every call
FixedHosts(win) == {{}} \cup {{p} : p \in FontPaths(win)}

MonoInit ==
    /\ is_windows \in BOOLEAN
    /\ full_name \in Texts
    /\ fixed_font = TRUE
    /\ host_fonts \in FixedHosts(is_windows)
    /\ \E a \in StartSizes, b \in StartSizes :
          /\ a < b
          /\ Entry(a)
          /\ first_start = a
          /\ next_start = b
    /\ run = 1
    /\ first_result = 0
    /\ ServerStart

\* The second call of the function, from the larger start size
Restart ==
    /\ pc = "done"
    /\ run = 1
    /\ run' = 2
    /\ first_result' = font_size
    /\ start_size' = next_start
    /\ font_size' = next_start
    /\ font' = None
    /\ pc' = "loop"
    /\ accepted' = FALSE
    /\ attempts' = 0
    /\ log' = <<>>
    /\ default_tried' = FALSE
    /\ last_avail' = {}
    /\ text_width' = 0
    /\ text_height' = 0
    /\ x' = 0
    /\ image' = None
    /\ UNCHANGED <<is_windows, full_name, fixed_font, host_fonts, first_start,
                   next_start, server_vars>>

MonoNext == Resolve \/ LoopExit \/ MeasureStep \/ Clamp \/ Layout \/ Restart

SpecMono == MonoInit /\ [][MonoNext]_vars

----------------------------------------------------------------------------
(* The server alone *)

ServerInit ==
    /\ is_windows = FALSE
    /\ full_name = [glyphs |-> 0, lines |-> 1]
    /\ Entry(StartFontSize)
    /\ fixed_font = FALSE
    /\ host_fonts = {}
    /\ run = 1
    /\ first_start = StartFontSize
    /\ next_start = StartFontSize
    /\ first_result = 0
    /\ ServerStart

ServerNext == PrintLabel \/ PrintLabelPdf

ServerSpec == ServerInit /\ [][ServerNext]_vars

----------------------------------------------------------------------------
(* Properties of create_label_image *)

\* The candidate sizes 120, 115, ..., 25
CandidateSizes == {s \in 21..120 : (120 - s) % 5 = 0}

\* C1: when the search ended by acceptance, the bounding box measured in the
\* font and size used for drawing is at most 941 wide and 275 high.
AcceptedFitsMargins ==
    (pc = "done" /\ accepted) => (text_width <= 941 /\ text_height <= 275)

AcceptedAfterShrinking ==
    pc = "done" /\ accepted /\ attempts > 1 /\ font.size = font_size

\* C2: font_size is at every moment one of 120, 115, ..., 25, or 20.
SizeIsCandidateOrMinimum == font_size \in CandidateSizes \cup {20}

SmallestCandidateChosen == pc = "done" /\ accepted /\ font_size = 25

\* C3: first fit in descending order: when size s is accepted, every candidate
\* size above s was measured and did not fit, the measurement at s fitted, and
\* no size below s was measured.
FirstFitDescending ==
    accepted =>
        /\ Len(log) > 0
        /\ log[Len(log)] = <<font_size, TRUE>>
        /\ \A i \in DOMAIN log :
              /\ log[i][1] >= font_size
              /\ log[i][1] > font_size => ~log[i][2]
        /\ \A c \in CandidateSizes :
              c > font_size => \E i \in DOMAIN log : log[i] = <<c, FALSE>>

AcceptedAtThirdSize == accepted /\ Len(log) = 3 /\ pc = "done"

\* C4: the search makes at most (120 - 20) / 5 = 20 fitting attempts and the
\* call reaches its return.
SearchTerminates == [](attempts <= 20) /\ <>(pc = "done")

AllTwentyAttempts == pc = "done" /\ attempts = 20

\* C5: when no candidate size was accepted, the size is the minimum 20, the
\* font is the one resolved again at 20 (first loadable file, else the default
\* font) and the image is returned, overflowing or not.
ExhaustedClampsToMinimum ==
    (pc = "done" /\ ~accepted) =>
        /\ font_size = 20
        /\ font = get_font_path(last_avail, 20)
        /\ font.kind = "truetype" => font.size = 20
        /\ image # None
        /\ image.width = label_width /\ image.height = label_height

OverflowAtMinimum ==
    pc = "done" /\ ~accepted /\ font.kind = "truetype" /\ text_width > 941

\* C6: once the default font has been selected, no fitting measurement is
\* made with it (and so no decrement follows one).
DefaultFontStopsSearch == ~default_tried

CenteredWithinOnePixel ==
    (pc = "done" /\ accepted) =>
        /\ 2 * x + text_width - 991 <= 2
        /\ 991 - (2 * x + text_width) <= 2

CenteredOddDifference ==
    pc = "done" /\ accepted /\ text_width > 0 /\ (991 - text_width) % 2 = 1

----------------------------------------------------------------------------
(* Properties of the print handlers *)

\* C9: on /print-label a row is appended to print_logs exactly when
\* print_to_brother_ql returned success; a printer error answers 500 and adds
\* no row; the rows added equal the requests answered with success.
LogRowIffPrintSuccess ==
    last.route = "/print-label" =>
        /\ (last.logs_added = 1) <=> (last.printer = "success")
        /\ last.printer = "error" => (last.status = 500 /\ last.logs_added = 0)
        /\ label_rows = label_success

ModelCheckComesFirst ==
    (last.route = "/print-label"
        /\ last_models \in {"omits_model", "error_string"}) =>
        /\ last.printer = "error"
        /\ ~last.image_created
        /\ ~last.sent

FailedCheckStopsPrint ==
    /\ last.route = "/print-label"
    /\ last_models = "error_string"
    /\ last.printer = "error"
    /\ last.status = 500

\* C12: every row of print_logs has a user_id that is the id of a row of
\* users.
LogsReferenceUsers == \A i \in DOMAIN print_logs : print_logs[i] \in users

====
